---------------------------- MODULE Spec2Model ----------------------------
(***************************************************************************)
(* GEA GlucoFlow (src/app.py): the delta table, the insulin adjustment     *)
(* protocol and the Streamlit session state of the calculator.             *)
(*                                                                         *)
(* Numbers.  Python floats are modelled in fixed point:                    *)
(*   - glucose readings and glucose changes in HALF mg/dL (75.0 -> 150,    *)
(*     -25.5 -> -51), the coarsest grid on which the glucose-change        *)
(*     thresholds of the protocol differ from each other;                  *)
(*   - insulin flows and deltas in TENTHS of cc/h (6.5 -> 65, 0.5 -> 5),   *)
(*     the resolution of the flow field of the form (step 0.1).            *)
(* An Optional value is a sequence of length at most one: None is << >>    *)
(* and a present value v is <<v>>.                                         *)
(***************************************************************************)
EXTENDS Integers, Sequences, FiniteSets, TLC

VARIABLES
    \* st.session_state
    current_glucose,            \* Optional reading, half mg/dL
    previous_glucose,           \* Optional reading, half mg/dL
    current_flow,               \* Optional flow, tenths of cc/h
    recommendation,             \* Optional InsulinRecommendation (key absent = None)
    recommendation_calculated,  \* the ready flag
    \* what the last run of the script did
    trigger,                    \* "start", "submit" (form_submit_button) or "reset" (on_click)
    error_shown,                \* the st.error of the last run: "none", "missing", "unexpected"
    \* one call of calculate_insulin_adjustment
    engine_data,                \* Optional InsulinCalculatorFormData
    engine_ret,                 \* Optional InsulinRecommendation
    \* the calls of get_deltas, most recent last (at most two are kept)
    deltas_calls

vars == <<current_glucose, previous_glucose, current_flow, recommendation,
          recommendation_calculated, trigger, error_shown,
          engine_data, engine_ret, deltas_calls>>

session_vars == <<current_glucose, previous_glucose, current_flow, recommendation,
                  recommendation_calculated, trigger, error_shown>>

None == << >>

Some(v) == <<v>>

Max(a, b) == IF a >= b THEN a ELSE b

\* mg/dL -> half mg/dL
MgDl(x) == 2 * x

(***************************************************************************)
(* Constants (src/app.py 5-9)                                              *)
(***************************************************************************)
GLUCOSE_TARGET_LOW_1 == MgDl(75)

GLUCOSE_TARGET_LOW_2 == MgDl(100)

GLUCOSE_TARGET_MID_1 == MgDl(140)

GLUCOSE_TARGET_MID_2 == MgDl(200)

PAUSE_DURATION_MINUTES == 30

(***************************************************************************)
(* '{:.0f}' on a value in half units: round to the nearest integer, a tie  *)
(* (an odd number of halves, exactly representable) to the even one.       *)
(***************************************************************************)
Format0f(h) ==
    IF h % 2 = 0 THEN h \div 2
    ELSE LET lo == (h - 1) \div 2
         IN  IF lo % 2 = 0 THEN lo ELSE lo + 1

(***************************************************************************)
(* get_deltas (src/app.py 36-62).  current_flow in tenths of cc/h.         *)
(***************************************************************************)
get_deltas_first_band_inclusive(flow) ==
    IF flow <= 40 THEN [delta1 |-> 5, delta2 |-> 10]
    ELSE IF 40 <= flow /\ flow < 65 THEN [delta1 |-> 10, delta2 |-> 20]
    ELSE IF 65 <= flow /\ flow < 100 THEN [delta1 |-> 15, delta2 |-> 30]
    ELSE IF 100 <= flow /\ flow < 150 THEN [delta1 |-> 20, delta2 |-> 40]
    ELSE IF 150 <= flow /\ flow < 200 THEN [delta1 |-> 30, delta2 |-> 60]
    ELSE IF 200 <= flow /\ flow < 250 THEN [delta1 |-> 40, delta2 |-> 80]
    ELSE IF flow >= 250 THEN [delta1 |-> 50, delta2 |-> 100]
    ELSE [delta1 |-> 0, delta2 |-> 0]

get_deltas(flow) ==
    IF flow < 40 THEN [delta1 |-> 5, delta2 |-> 10]
    ELSE IF 40 <= flow /\ flow < 65 THEN [delta1 |-> 10, delta2 |-> 20]
    ELSE IF 65 <= flow /\ flow < 100 THEN [delta1 |-> 15, delta2 |-> 30]
    ELSE IF 100 <= flow /\ flow < 150 THEN [delta1 |-> 20, delta2 |-> 40]
    ELSE IF 150 <= flow /\ flow < 200 THEN [delta1 |-> 30, delta2 |-> 60]
    ELSE IF 200 <= flow /\ flow < 250 THEN [delta1 |-> 40, delta2 |-> 80]
    ELSE IF flow >= 250 THEN [delta1 |-> 50, delta2 |-> 100]
    \* Fallback (should not be reached with flow >= 0)
    ELSE [delta1 |-> 0, delta2 |-> 0]

(***************************************************************************)
(* calculate_insulin_adjustment (src/app.py 64-188).                       *)
(*                                                                         *)
(* An InsulinRecommendation is a record of the eight keys of the source.   *)
(* Formatted text is kept as a tuple of its fixed label and the numbers    *)
(* printed in it: flows are printed with '{:.1f}', exact on tenths, and    *)
(* glucose values with '{:.0f}' (Format0f).                                *)
(***************************************************************************)

\* line 80: the input validation
InputValid_flow_unchecked(data) ==
    /\ data.currentGlucose > 0
    /\ data.previousGlucose > 0

InputValid(data) ==
    /\ data.currentGlucose > 0
    /\ data.previousGlucose > 0
    /\ data.currentInsulinFlow >= 0

\* lines 82-91
ErrorEnDatos ==
    [actionTitle |-> "ERROR EN DATOS",
     details |-> << <<"Verifique que los valores de glucosa sean positivos y el flujo no negativo">> >>,
     newFlowRateInfo |-> <<"N/A">>,
     originalFlowRateInfo |-> <<"N/A">>,
     calculationSummary |-> None,
     isCritical |-> TRUE,
     colorClass |-> "error",
     icon |-> "alarm"]

\* lines 94, 110-119: the locals before the protocol runs
Defaults(data) ==
    LET flow == data.currentInsulinFlow
        glucose_change == data.currentGlucose - data.previousGlucose
    IN  [actionTitle |-> "Revisar Datos/Protocolo",
         details |-> << <<"Los valores ingresados no generaron una recomendacion estandar">> >>,
         newFlowRateInfo |-> <<"Mantener flujo", flow>>,
         originalFlowRateInfo |-> <<"Flujo actual", flow>>,
         calculationSummary |->
             Some(<< <<"Cambio de glucosa", Format0f(glucose_change),
                       Format0f(data.previousGlucose), Format0f(data.currentGlucose)>> >>),
         isCritical |-> FALSE,
         colorClass |-> "warning",
         icon |-> "question"]

\* calculation_summary += ...
Summary(rec, part) == Some(Append(rec.calculationSummary[1], part))

\* lines 125-130
Hypoglycemia_keeps_flow(data, rec) ==
    [rec EXCEPT !.actionTitle = "HIPOGLUCEMIA!",
                !.details = << <<"CONSIDERAR SUSPENDER", Format0f(data.currentGlucose)>>,
                              <<"Administrar carbohidratos segun protocolo">>,
                              <<"Evaluar causa">> >>,
                !.newFlowRateInfo = <<"Nuevo flujo sugerido (SUSPENDER)", data.currentInsulinFlow>>,
                !.calculationSummary = Summary(rec, <<"Suspension sugerida por hipoglucemia">>),
                !.isCritical = TRUE, !.colorClass = "error", !.icon = "alarm"]

Hypoglycemia(data, rec) ==
    [rec EXCEPT !.actionTitle = "HIPOGLUCEMIA!",
                !.details = << <<"CONSIDERAR SUSPENDER", Format0f(data.currentGlucose)>>,
                              <<"Administrar carbohidratos segun protocolo">>,
                              <<"Evaluar causa">> >>,
                !.newFlowRateInfo = <<"Nuevo flujo sugerido (SUSPENDER)", 0>>,
                !.calculationSummary = Summary(rec, <<"Suspension sugerida por hipoglucemia">>),
                !.isCritical = TRUE, !.colorClass = "error", !.icon = "alarm"]

\* the branch "CONTINUAR SIN CAMBIOS" (lines 136, 148, 162, 176)
Continue(data, rec, why) ==
    [rec EXCEPT !.actionTitle = "CONTINUAR SIN CAMBIOS",
                !.details = << <<why>> >>,
                !.newFlowRateInfo = <<"Mantener", data.currentInsulinFlow>>,
                !.colorClass = "success", !.icon = "check"]

\* the branches "AUMENTAR FLUJO (n Delta)" (lines 146, 158, 160, 172, 174)
Increase(data, rec, n, why) ==
    LET deltas == get_deltas(data.currentInsulinFlow)
        flow_change_amount == IF n = 1 THEN deltas.delta1 ELSE deltas.delta2
        new_flow == data.currentInsulinFlow + flow_change_amount
    IN  [rec EXCEPT !.actionTitle = IF n = 1 THEN "AUMENTAR FLUJO (1 Delta)"
                                             ELSE "AUMENTAR FLUJO (2 Deltas)",
                    !.details = << <<why>>, <<"Aumentar", flow_change_amount>> >>,
                    !.newFlowRateInfo = <<"Nuevo", new_flow>>,
                    !.calculationSummary = Summary(rec, <<"Delta", flow_change_amount>>),
                    !.colorClass = "info",
                    !.icon = IF n = 1 THEN "up" ELSE "up up"]

\* the branches "DISMINUIR FLUJO (1 Delta)" (lines 138, 150, 164, 178)
Decrease_unclamped(data, rec, why) ==
    LET deltas == get_deltas(data.currentInsulinFlow)
        flow_change_amount == - deltas.delta1
        new_flow == data.currentInsulinFlow + flow_change_amount
    IN  [rec EXCEPT !.actionTitle = "DISMINUIR FLUJO (1 Delta)",
                    !.details = << <<why>>, <<"Disminuir", deltas.delta1>> >>,
                    !.newFlowRateInfo = <<"Nuevo", new_flow>>,
                    !.calculationSummary = Summary(rec, <<"Delta", flow_change_amount>>),
                    !.colorClass = "info", !.icon = "down"]

Decrease(data, rec, why) ==
    LET deltas == get_deltas(data.currentInsulinFlow)
        flow_change_amount == - deltas.delta1
        new_flow == Max(0, data.currentInsulinFlow + flow_change_amount)
    IN  [rec EXCEPT !.actionTitle = "DISMINUIR FLUJO (1 Delta)",
                    !.details = << <<why>>, <<"Disminuir", deltas.delta1>> >>,
                    !.newFlowRateInfo = <<"Nuevo", new_flow>>,
                    !.calculationSummary = Summary(rec, <<"Delta", flow_change_amount>>),
                    !.colorClass = "info", !.icon = "down"]

\* the branches "PAUSAR (30 min) Y AJUSTAR (2 Deltas)" (lines 140, 152, 166, 180)
Pause_not_critical(data, rec, why) ==
    LET deltas == get_deltas(data.currentInsulinFlow)
        flow_change_amount == - deltas.delta2
        new_flow_after_pause == Max(0, data.currentInsulinFlow + flow_change_amount)
    IN  [rec EXCEPT !.actionTitle = "PAUSAR Y AJUSTAR (2 Deltas)",
                    !.details = << <<why>>, <<"Pausar", PAUSE_DURATION_MINUTES>>,
                                  <<"Reanudar y disminuir", deltas.delta2>> >>,
                    !.newFlowRateInfo = <<"Post-pausa", new_flow_after_pause>>,
                    !.calculationSummary = Summary(rec, <<"Pausa + Delta", flow_change_amount>>),
                    !.colorClass = "warning", !.icon = "pause down"]

Pause(data, rec, why) ==
    LET deltas == get_deltas(data.currentInsulinFlow)
        flow_change_amount == - deltas.delta2
        new_flow_after_pause == Max(0, data.currentInsulinFlow + flow_change_amount)
    IN  [rec EXCEPT !.actionTitle = "PAUSAR Y AJUSTAR (2 Deltas)",
                    !.details = << <<why>>, <<"Pausar", PAUSE_DURATION_MINUTES>>,
                                  <<"Reanudar y disminuir", deltas.delta2>> >>,
                    !.newFlowRateInfo = <<"Post-pausa", new_flow_after_pause>>,
                    !.calculationSummary = Summary(rec, <<"Pausa + Delta", flow_change_amount>>),
                    !.isCritical = TRUE, !.colorClass = "warning", !.icon = "pause down"]

\* lines 133-140: 75 <= glucose < 100
Band_75_99(data, rec0) ==
    LET glucose_change == data.currentGlucose - data.previousGlucose
        rec == [rec0 EXCEPT !.calculationSummary =
                   Summary(rec0, <<"Rango", Format0f(GLUCOSE_TARGET_LOW_1),
                                   Format0f(GLUCOSE_TARGET_LOW_2)>>)]
    IN  IF glucose_change > 0
            THEN Continue(data, rec, "Glucosa 75-99 y subiendo")
        ELSE IF 0 >= glucose_change /\ glucose_change > MgDl(-25)
            THEN Decrease(data, rec, "Glucosa 75-99, estable o descenso < 25")
        ELSE IF glucose_change <= MgDl(-25)
            THEN Pause(data, rec, "Glucosa 75-99, descenso >= 25")
        ELSE rec

\* lines 143-152: 100 <= glucose < 140
Band_100_139(data, rec0) ==
    LET glucose_change == data.currentGlucose - data.previousGlucose
        rec == [rec0 EXCEPT !.calculationSummary =
                   Summary(rec0, <<"Rango", Format0f(GLUCOSE_TARGET_LOW_2),
                                   Format0f(GLUCOSE_TARGET_MID_1)>>)]
    IN  IF glucose_change > MgDl(25)
            THEN Increase(data, rec, 1, "Glucosa 100-139, aumento > 25")
        ELSE IF MgDl(-25) < glucose_change /\ glucose_change <= MgDl(25)
            THEN Continue(data, rec, "Glucosa 100-139, cambio -25 a +25")
        ELSE IF MgDl(-50) <= glucose_change /\ glucose_change <= MgDl(-26)
            THEN Decrease(data, rec, "Glucosa 100-139, descenso 26-50")
        ELSE IF glucose_change < MgDl(-50)
            THEN Pause(data, rec, "Glucosa 100-139, descenso > 50")
        ELSE rec

\* lines 155-166: 140 <= glucose < 200
Band_140_199_stable_holds(data, rec0) ==
    LET glucose_change == data.currentGlucose - data.previousGlucose
        rec == [rec0 EXCEPT !.calculationSummary =
                   Summary(rec0, <<"Rango", Format0f(GLUCOSE_TARGET_MID_1),
                                   Format0f(GLUCOSE_TARGET_MID_2)>>)]
    IN  IF glucose_change > MgDl(50)
            THEN Increase(data, rec, 2, "Glucosa 140-199, aumento > 50")
        ELSE IF 0 < glucose_change /\ glucose_change <= MgDl(50)
            THEN Increase(data, rec, 1, "Glucosa 140-199, aumento <= 50 o estable")
        ELSE IF MgDl(-49) < glucose_change /\ glucose_change <= 0
            THEN Continue(data, rec, "Glucosa 140-199, descenso < 50")
        ELSE IF MgDl(-75) <= glucose_change /\ glucose_change <= MgDl(-50)
            THEN Decrease(data, rec, "Glucosa 140-199, descenso 50-75")
        ELSE IF glucose_change < MgDl(-75)
            THEN Pause(data, rec, "Glucosa 140-199, descenso > 75")
        ELSE rec

Band_140_199(data, rec0) ==
    LET glucose_change == data.currentGlucose - data.previousGlucose
        rec == [rec0 EXCEPT !.calculationSummary =
                   Summary(rec0, <<"Rango", Format0f(GLUCOSE_TARGET_MID_1),
                                   Format0f(GLUCOSE_TARGET_MID_2)>>)]
    IN  IF glucose_change > MgDl(50)
            THEN Increase(data, rec, 2, "Glucosa 140-199, aumento > 50")
        ELSE IF 0 <= glucose_change /\ glucose_change <= MgDl(50)
            THEN Increase(data, rec, 1, "Glucosa 140-199, aumento <= 50 o estable")
        ELSE IF MgDl(-49) < glucose_change /\ glucose_change < 0
            THEN Continue(data, rec, "Glucosa 140-199, descenso < 50")
        ELSE IF MgDl(-75) <= glucose_change /\ glucose_change <= MgDl(-50)
            THEN Decrease(data, rec, "Glucosa 140-199, descenso 50-75")
        ELSE IF glucose_change < MgDl(-75)
            THEN Pause(data, rec, "Glucosa 140-199, descenso > 75")
        ELSE rec

\* lines 169-180: glucose >= 200
Band_200_up(data, rec0) ==
    LET glucose_change == data.currentGlucose - data.previousGlucose
        rec == [rec0 EXCEPT !.calculationSummary =
                   Summary(rec0, <<"Rango >=", Format0f(GLUCOSE_TARGET_MID_2)>>)]
    IN  IF glucose_change > 0
            THEN Increase(data, rec, 2, "Glucosa >= 200 y subiendo")
        ELSE IF MgDl(-24) < glucose_change /\ glucose_change <= 0
            THEN Increase(data, rec, 1, "Glucosa >= 200, estable o descenso < 25")
        ELSE IF MgDl(-75) <= glucose_change /\ glucose_change <= MgDl(-25)
            THEN Continue(data, rec, "Glucosa >= 200, descenso 25-75")
        ELSE IF MgDl(-100) <= glucose_change /\ glucose_change < MgDl(-75)
            THEN Decrease(data, rec, "Glucosa >= 200, descenso 75-100")
        ELSE IF glucose_change < MgDl(-100)
            THEN Pause(data, rec, "Glucosa >= 200, descenso > 100")
        ELSE rec

\* lines 75-188.  get_deltas raises nothing on a number, so the handler of
\* lines 97-108 ("ERROR INTERNO") has no input that reaches it.
calculate_insulin_adjustment(data) ==
    LET current_glucose_ == data.currentGlucose
    IN  IF ~ InputValid(data) THEN ErrorEnDatos
        ELSE IF current_glucose_ < GLUCOSE_TARGET_LOW_1
            THEN Hypoglycemia(data, Defaults(data))
        ELSE IF GLUCOSE_TARGET_LOW_1 <= current_glucose_ /\ current_glucose_ < GLUCOSE_TARGET_LOW_2
            THEN Band_75_99(data, Defaults(data))
        ELSE IF GLUCOSE_TARGET_LOW_2 <= current_glucose_ /\ current_glucose_ < GLUCOSE_TARGET_MID_1
            THEN Band_100_139(data, Defaults(data))
        ELSE IF GLUCOSE_TARGET_MID_1 <= current_glucose_ /\ current_glucose_ < GLUCOSE_TARGET_MID_2
            THEN Band_140_199(data, Defaults(data))
        ELSE IF current_glucose_ >= GLUCOSE_TARGET_MID_2
            THEN Band_200_up(data, Defaults(data))
        ELSE Defaults(data)

(***************************************************************************)
(* The session (src/app.py 191-280).                                       *)
(*                                                                         *)
(* The script runs top to bottom once per interaction.  The three          *)
(* number_input widgets live in a form, so their keys of session_state     *)
(* change only when the form is submitted; the reset button runs           *)
(* reset_values as its on_click callback before the script runs again.     *)
(***************************************************************************)

\* lines 279: the gate of the results area
ResultsShown == recommendation_calculated /\ recommendation # None

\* lines 191-199
reset_values_keeps_recommendation ==
    /\ current_glucose' = None
    /\ previous_glucose' = None
    /\ current_flow' = None
    /\ recommendation' = recommendation
    /\ recommendation_calculated' = FALSE

reset_values ==
    /\ current_glucose' = None
    /\ previous_glucose' = None
    /\ current_flow' = None
    /\ recommendation' = None
    /\ recommendation_calculated' = FALSE

\* lines 258-259: a field is None
MissingFields_keeps_flag ==
    /\ error_shown' = "missing"
    /\ UNCHANGED <<recommendation, recommendation_calculated>>

MissingFields ==
    /\ error_shown' = "missing"
    /\ recommendation_calculated' = FALSE
    /\ UNCHANGED recommendation

\* lines 261-272, with the result computed only when none is stored yet
Compute_keeps_stored_recommendation(cg, pg, fl) ==
    LET input_data == [currentGlucose |-> cg[1],
                       previousGlucose |-> pg[1],
                       currentInsulinFlow |-> fl[1]]
    IN  /\ recommendation' = IF recommendation = None
                                 THEN Some(calculate_insulin_adjustment(input_data))
                                 ELSE recommendation
        /\ recommendation_calculated' = TRUE
        /\ error_shown' = "none"

\* lines 261-272.  float() of a number and calculate_insulin_adjustment raise
\* nothing, so the except branch (lines 269-272) is never taken.
Compute(cg, pg, fl) ==
    LET input_data == [currentGlucose |-> cg[1],
                       previousGlucose |-> pg[1],
                       currentInsulinFlow |-> fl[1]]
    IN  /\ recommendation' = Some(calculate_insulin_adjustment(input_data))
        /\ recommendation_calculated' = TRUE
        /\ error_shown' = "none"

(***************************************************************************)
(* The values a form submit commits.  line 80 validates because the script *)
(* takes whatever numbers session_state holds: min_value / max_value are   *)
(* limits of the input widget in the browser, the script tests the keys    *)
(* for None only (lines 255-257).  0 mg/dL and -0.1 cc/h stand for values  *)
(* that fail line 80.                                                      *)
(***************************************************************************)
FormCurrentGlucose == {None, Some(0), Some(MgDl(70)), Some(MgDl(120))}

FormPreviousGlucose == {None, Some(MgDl(90)), Some(MgDl(146) - 1)}

FormCurrentFlow == {None, Some(-1), Some(3), Some(50)}

\* a run with submitted = True (lines 228-272)
Submit ==
    \E cg \in FormCurrentGlucose, pg \in FormPreviousGlucose, fl \in FormCurrentFlow :
        /\ current_glucose' = cg
        /\ previous_glucose' = pg
        /\ current_flow' = fl
        /\ trigger' = "submit"
        /\ IF cg = None \/ pg = None \/ fl = None
               THEN MissingFields
               ELSE Compute(cg, pg, fl)
        /\ UNCHANGED <<engine_data, engine_ret, deltas_calls>>

\* a click on "Limpiar Campos / Reset" (line 275) and the run that follows it
Reset ==
    /\ reset_values
    /\ trigger' = "reset"
    /\ error_shown' = "none"
    /\ UNCHANGED <<engine_data, engine_ret, deltas_calls>>

\* lines 206-215: a new session
Init ==
    /\ current_glucose = None
    /\ previous_glucose = None
    /\ current_flow = None
    /\ recommendation = None
    /\ recommendation_calculated = FALSE
    /\ trigger = "start"
    /\ error_shown = "none"
    /\ engine_data = None
    /\ engine_ret = None
    /\ deltas_calls = << >>

Next == Submit \/ Reset

Spec == Init /\ [][Next]_vars

(***************************************************************************)
(* calculate_insulin_adjustment as a function: one call on each input.     *)
(* The current glucose lies within Near half mg/dL of zero and of every    *)
(* glucose threshold (or is the form maximum 1500), the glucose change is  *)
(* any number of half mg/dL from Near below -100 to Near above +50 (the    *)
(* outermost change thresholds), previous glucose is current glucose less  *)
(* the change, and the flow lies within Near tenths of cc/h of zero, of    *)
(* every flow threshold of get_deltas, of the two smallest deltas and of   *)
(* the form maximum 100.0, or is one of 0.3, 3.0, 4.2 and 5.0.             *)
(***************************************************************************)
Near == 1

Around(points) == {p + o : p \in points, o \in (-Near)..Near}

CurrentGlucoseSamples ==
    Around({0, GLUCOSE_TARGET_LOW_1, GLUCOSE_TARGET_LOW_2,
            GLUCOSE_TARGET_MID_1, GLUCOSE_TARGET_MID_2}) \cup {MgDl(1500)}

GlucoseChangeSamples == (MgDl(-100) - Near)..(MgDl(50) + Near)

FlowSamples == Around({0, 5, 10, 40, 65, 100, 150, 200, 250, 1000}) \cup {3, 30, 42, 50}

Inputs ==
    {[currentGlucose |-> c, previousGlucose |-> c - d, currentInsulinFlow |-> f] :
        c \in CurrentGlucoseSamples, d \in GlucoseChangeSamples, f \in FlowSamples}

InitEngine ==
    /\ current_glucose = None
    /\ previous_glucose = None
    /\ current_flow = None
    /\ recommendation = None
    /\ recommendation_calculated = FALSE
    /\ trigger = "start"
    /\ error_shown = "none"
    /\ engine_data \in {Some(d) : d \in Inputs}
    /\ engine_ret = None
    /\ deltas_calls = << >>

Calculate ==
    /\ engine_data # None
    /\ engine_ret = None
    /\ engine_ret' = Some(calculate_insulin_adjustment(engine_data[1]))
    /\ UNCHANGED <<engine_data, deltas_calls>>
    /\ UNCHANGED session_vars

SpecEngine == InitEngine /\ [][Calculate]_vars

(***************************************************************************)
(* get_deltas as a function: calls on the flows of FlowSamples, the last   *)
(* two of them kept.                                                       *)
(***************************************************************************)
CallGetDeltas ==
    \E f \in FlowSamples :
        LET call == [current_flow |-> f, ret |-> get_deltas(f)]
        IN  /\ deltas_calls' = IF deltas_calls = << >> THEN <<call>>
                               ELSE <<deltas_calls[Len(deltas_calls)], call>>
            /\ UNCHANGED <<engine_data, engine_ret>>
            /\ UNCHANGED session_vars

SpecDeltas == Init /\ [][CallGetDeltas]_vars

(***************************************************************************)
(* Properties                                                              *)
(***************************************************************************)

\* the three fields of session_state, as given
AnyAbsent(cg, pg, fl) == cg = None \/ pg = None \/ fl = None

\* all present, and one fails currentGlucose > 0, previousGlucose > 0, flow >= 0
FailCheck(cg, pg, fl) ==
    /\ ~ AnyAbsent(cg, pg, fl)
    /\ ~ (cg[1] > 0 /\ pg[1] > 0 /\ fl[1] >= 0)

\* C1: after reset_values has run, from whatever state, the three fields are
\* None, no recommendation is stored, the ready flag is false and the results
\* area shows nothing.
C1_ResetRestoresInitialState ==
    trigger = "reset" =>
        /\ current_glucose = None
        /\ previous_glucose = None
        /\ current_flow = None
        /\ recommendation = None
        /\ recommendation_calculated = FALSE
        /\ ~ ResultsShown

C1_Witness ==
    /\ trigger = "reset"
    /\ current_glucose = None /\ previous_glucose = None /\ current_flow = None
    /\ recommendation = None

\* C2: a submit with a field absent signals the missing-fields failure, leaves
\* the stored recommendation as it was (present or not), sets the ready flag
\* to false and shows no results.
C2_MissingFieldsSubmit ==
    [][ (trigger' = "submit" /\ AnyAbsent(current_glucose', previous_glucose', current_flow'))
        => /\ error_shown' = "missing"
           /\ recommendation' = recommendation
           /\ recommendation_calculated' = FALSE
           /\ ~ ResultsShown' ]_vars

C2_Witness ==
    /\ trigger = "submit"
    /\ AnyAbsent(current_glucose, previous_glucose, current_flow)
    /\ error_shown = "missing"
    /\ recommendation # None
    /\ ~ recommendation_calculated

Accepted(d) ==
    d.currentGlucose > 0 /\ d.previousGlucose > 0 /\ d.currentInsulinFlow >= 0

Change(d) == d.currentGlucose - d.previousGlucose

ProtocolAction(g, ch) ==
    IF g < MgDl(75) THEN "suspend"
    ELSE IF g < MgDl(100) THEN
        IF ch > 0 THEN "hold"
        ELSE IF ch > MgDl(-25) THEN "decrease1"
        ELSE "pause2"
    ELSE IF g < MgDl(140) THEN
        IF ch > MgDl(25) THEN "increase1"
        ELSE IF MgDl(-25) < ch /\ ch <= MgDl(25) THEN "hold"
        ELSE IF MgDl(-50) <= ch /\ ch <= MgDl(-26) THEN "decrease1"
        ELSE IF ch < MgDl(-50) THEN "pause2"
        ELSE "gap"
    ELSE IF g < MgDl(200) THEN
        IF ch > MgDl(50) THEN "increase2"
        ELSE IF 0 <= ch /\ ch <= MgDl(50) THEN "increase1"
        ELSE IF MgDl(-49) < ch /\ ch < 0 THEN "hold"
        ELSE IF MgDl(-75) <= ch /\ ch <= MgDl(-50) THEN "decrease1"
        ELSE IF ch < MgDl(-75) THEN "pause2"
        ELSE "gap"
    ELSE
        IF ch > 0 THEN "increase2"
        ELSE IF MgDl(-24) < ch /\ ch <= 0 THEN "increase1"
        ELSE IF MgDl(-75) <= ch /\ ch <= MgDl(-25) THEN "hold"
        ELSE IF MgDl(-100) <= ch /\ ch < MgDl(-75) THEN "decrease1"
        ELSE IF ch < MgDl(-100) THEN "pause2"
        ELSE "gap"

\* the band table of the delta calculator (flows and deltas in tenths of cc/h)
BandTable(flow) ==
    CASE flow < 40 -> <<5, 10>>
      [] 40 <= flow /\ flow < 65 -> <<10, 20>>
      [] 65 <= flow /\ flow < 100 -> <<15, 30>>
      [] 100 <= flow /\ flow < 150 -> <<20, 40>>
      [] 150 <= flow /\ flow < 200 -> <<30, 60>>
      [] 200 <= flow /\ flow < 250 -> <<40, 80>>
      [] flow >= 250 -> <<50, 100>>

\* the parts of calculationSummary that record an applied delta
DeltaParts(r) ==
    IF r.calculationSummary = None THEN {}
    ELSE {i \in DOMAIN r.calculationSummary[1] :
            r.calculationSummary[1][i][1] \in {"Delta", "Pausa + Delta"}}

Called == engine_data # None /\ engine_ret # None

\* C4: below 75 mg/dL every accepted input gets the hypoglycemia result: new
\* flow 0.0 (suspend), critical, severity error, no delta applied, whatever the
\* glucose change and the current flow.
C4_HypoglycemiaSuspends ==
    Called =>
        LET d == engine_data[1]
            r == engine_ret[1]
        IN  (Accepted(d) /\ d.currentGlucose < MgDl(75)) =>
                /\ r.actionTitle = "HIPOGLUCEMIA!"
                /\ r.newFlowRateInfo = <<"Nuevo flujo sugerido (SUSPENDER)", 0>>
                /\ r.isCritical
                /\ r.colorClass = "error"
                /\ DeltaParts(r) = {}

C4_Witness ==
    /\ Called
    /\ Accepted(engine_data[1])
    /\ engine_data[1].currentGlucose < MgDl(75)
    /\ Change(engine_data[1]) > 0
    /\ engine_data[1].currentInsulinFlow > 0
    /\ engine_ret[1].newFlowRateInfo[2] = 0

\* the result r is the tabulated action a on a current flow f
IsAction(r, a, f) ==
    CASE a = "hold" ->
            /\ r.actionTitle = "CONTINUAR SIN CAMBIOS"
            /\ r.newFlowRateInfo = <<"Mantener", f>>
            /\ DeltaParts(r) = {}
      [] a = "increase1" ->
            /\ r.actionTitle = "AUMENTAR FLUJO (1 Delta)"
            /\ r.newFlowRateInfo = <<"Nuevo", f + BandTable(f)[1]>>
      [] a = "increase2" ->
            /\ r.actionTitle = "AUMENTAR FLUJO (2 Deltas)"
            /\ r.newFlowRateInfo = <<"Nuevo", f + BandTable(f)[2]>>
      [] a = "decrease1" ->
            /\ r.actionTitle = "DISMINUIR FLUJO (1 Delta)"
            /\ r.newFlowRateInfo = <<"Nuevo", Max(0, f - BandTable(f)[1])>>
      [] a = "pause2" ->
            /\ r.actionTitle = "PAUSAR Y AJUSTAR (2 Deltas)"
            /\ r.newFlowRateInfo = <<"Post-pausa", Max(0, f - BandTable(f)[2])>>
      [] OTHER -> TRUE

\* C5: at 75 mg/dL and above every accepted input gets the action the protocol
\* table gives for its glucose band and glucose change, with the deltas of the
\* current flow; hold leaves the flow as it is.
C5_ProtocolTable ==
    Called =>
        LET d == engine_data[1]
            r == engine_ret[1]
        IN  (Accepted(d) /\ d.currentGlucose >= MgDl(75)) =>
                IsAction(r, ProtocolAction(d.currentGlucose, Change(d)), d.currentInsulinFlow)

\* band [140,200), change exactly 0: increase by delta1
C5_Witness ==
    /\ Called
    /\ Accepted(engine_data[1])
    /\ engine_data[1].currentGlucose >= MgDl(140)
    /\ engine_data[1].currentGlucose < MgDl(200)
    /\ Change(engine_data[1]) = 0
    /\ engine_data[1].currentInsulinFlow = 42
    /\ engine_ret[1].newFlowRateInfo = <<"Nuevo", 52>>

Gap(g, ch) ==
    \/ MgDl(100) <= g /\ g < MgDl(140) /\ MgDl(-26) < ch /\ ch < MgDl(-25)
    \/ MgDl(140) <= g /\ g < MgDl(200) /\ MgDl(-50) < ch /\ ch < MgDl(-49)
    \/ MgDl(200) <= g /\ MgDl(-25) < ch /\ ch < MgDl(-24)

IsDefault(r) == r.actionTitle = "Revisar Datos/Protocolo"

\* the band the summary names
BandNamed(r) ==
    {r.calculationSummary[1][i] : i \in {j \in DOMAIN r.calculationSummary[1] :
        r.calculationSummary[1][j][1] \in {"Rango", "Rango >=",
                                           "Suspension sugerida por hipoglucemia"}}}

BandOf(g) ==
    IF g < MgDl(75) THEN <<"Suspension sugerida por hipoglucemia">>
    ELSE IF g < MgDl(100) THEN <<"Rango", 75, 100>>
    ELSE IF g < MgDl(140) THEN <<"Rango", 100, 140>>
    ELSE IF g < MgDl(200) THEN <<"Rango", 140, 200>>
    ELSE <<"Rango >=", 200>>

\* C6: every accepted input falls in exactly one glucose band, and the default
\* "Revisar Datos/Protocolo" (flow unchanged, not critical, severity warning)
\* is returned exactly in the three gaps: never below 100 mg/dL, never for two
\* whole-number readings.
C6_DefaultOnlyInGaps ==
    Called =>
        LET d == engine_data[1]
            r == engine_ret[1]
        IN  Accepted(d) =>
                /\ BandNamed(r) = {BandOf(d.currentGlucose)}
                /\ IsDefault(r) <=> Gap(d.currentGlucose, Change(d))
                /\ IsDefault(r) =>
                      /\ r.newFlowRateInfo = <<"Mantener flujo", d.currentInsulinFlow>>
                      /\ ~ r.isCritical
                      /\ r.colorClass = "warning"
                /\ d.currentGlucose < MgDl(100) => ~ IsDefault(r)
                /\ (d.currentGlucose % 2 = 0 /\ d.previousGlucose % 2 = 0) => ~ IsDefault(r)

\* C7: no accepted input gets a negative flow; a decrease gives exactly
\* max(0.0, flow - delta), an increase exactly flow + delta, unclamped.
C7_FloorRule ==
    Called =>
        LET d == engine_data[1]
            r == engine_ret[1]
            f == d.currentInsulinFlow
        IN  Accepted(d) =>
                /\ r.newFlowRateInfo[2] >= 0
                /\ r.actionTitle = "DISMINUIR FLUJO (1 Delta)"
                     => r.newFlowRateInfo[2] = Max(0, f - BandTable(f)[1])
                /\ r.actionTitle = "PAUSAR Y AJUSTAR (2 Deltas)"
                     => r.newFlowRateInfo[2] = Max(0, f - BandTable(f)[2])
                /\ r.actionTitle = "AUMENTAR FLUJO (1 Delta)"
                     => r.newFlowRateInfo[2] = f + BandTable(f)[1]
                /\ r.actionTitle = "AUMENTAR FLUJO (2 Deltas)"
                     => r.newFlowRateInfo[2] = f + BandTable(f)[2]

\* a decrease of 0.5 on a flow of 0.3 gives 0.0
C7_Witness ==
    /\ Called
    /\ Accepted(engine_data[1])
    /\ engine_ret[1].actionTitle = "DISMINUIR FLUJO (1 Delta)"
    /\ engine_data[1].currentInsulinFlow = 3
    /\ engine_ret[1].newFlowRateInfo[2] = 0

\* C8: isCritical is true exactly for hypoglycemia and pause-and-adjust;
\* severity is error for hypoglycemia only, warning for pause-and-adjust and
\* the default, success for hold, info for an increase or a decrease.
C8_CriticalAndSeverity ==
    Called =>
        LET d == engine_data[1]
            r == engine_ret[1]
            a == ProtocolAction(d.currentGlucose, Change(d))
        IN  Accepted(d) =>
                /\ r.isCritical <=> (d.currentGlucose < MgDl(75) \/ a = "pause2")
                /\ r.colorClass =
                      CASE a = "suspend" -> "error"
                        [] a \in {"pause2", "gap"} -> "warning"
                        [] a = "hold" -> "success"
                        [] OTHER -> "info"

C8_Witness ==
    /\ Called
    /\ Accepted(engine_data[1])
    /\ engine_data[1].currentGlucose >= MgDl(75)
    /\ engine_ret[1].actionTitle = "PAUSAR Y AJUSTAR (2 Deltas)"
    /\ engine_ret[1].isCritical
    /\ engine_ret[1].colorClass = "warning"

\* C9: on every flow >= 0 get_deltas returns the pair of the band table, so
\* delta2 = 2 x delta1, and of two flows the larger gets deltas at least as
\* large.
C9_DeltaTable ==
    /\ \A i \in DOMAIN deltas_calls :
          deltas_calls[i].current_flow >= 0 =>
              /\ <<deltas_calls[i].ret.delta1, deltas_calls[i].ret.delta2>>
                     = BandTable(deltas_calls[i].current_flow)
              /\ deltas_calls[i].ret.delta2 = 2 * deltas_calls[i].ret.delta1
    /\ \A i, j \in DOMAIN deltas_calls :
          ( /\ 0 <= deltas_calls[i].current_flow
            /\ deltas_calls[i].current_flow <= deltas_calls[j].current_flow )
          => /\ deltas_calls[i].ret.delta1 <= deltas_calls[j].ret.delta1
             /\ deltas_calls[i].ret.delta2 <= deltas_calls[j].ret.delta2

\* 6.4 then 6.5: the deltas step from (1.0, 2.0) to (1.5, 3.0)
C9_Witness ==
    /\ Len(deltas_calls) = 2
    /\ deltas_calls[1].current_flow = 64
    /\ deltas_calls[2].current_flow = 65
    /\ deltas_calls[1].ret = [delta1 |-> 10, delta2 |-> 20]
    /\ deltas_calls[2].ret = [delta1 |-> 15, delta2 |-> 30]

\* C10: on a negative flow get_deltas returns the fallback pair (0, 0).
C10_NegativeFlowFallback ==
    \A i \in DOMAIN deltas_calls :
        deltas_calls[i].current_flow < 0 =>
            deltas_calls[i].ret = [delta1 |-> 0, delta2 |-> 0]

\* the three stored fields as the argument of calculate_insulin_adjustment
StoredInput ==
    [currentGlucose |-> current_glucose[1],
     previousGlucose |-> previous_glucose[1],
     currentInsulinFlow |-> current_flow[1]]

\* C11: whenever the ready flag is true (and so whenever the results area is
\* rendered) the three fields are present, a recommendation is stored, and it
\* is the one calculate_insulin_adjustment gives for the fields now stored.
C11_NoStaleRecommendation ==
    (recommendation_calculated \/ ResultsShown) =>
        /\ ~ AnyAbsent(current_glucose, previous_glucose, current_flow)
        /\ recommendation # None
        /\ recommendation[1] = calculate_insulin_adjustment(StoredInput)
        /\ ResultsShown

\* a second computation: 120 after 145.5 replaces whatever was stored before
C11_Witness ==
    /\ trigger = "submit"
    /\ recommendation_calculated
    /\ ResultsShown
    /\ current_glucose = Some(MgDl(120))
    /\ previous_glucose = Some(MgDl(146) - 1)
    /\ current_flow = Some(50)
    /\ recommendation[1].actionTitle = "Revisar Datos/Protocolo"
    /\ recommendation[1].originalFlowRateInfo = <<"Flujo actual", 50>>
=============================================================================
